---- MODULE Spec2Model ----
(***************************************************************************)
(* A model of the switchboard event system (src/src/lib.rs): the primitive *)
(* cells (Levels, Mux, Demux, Bool), the input ports, and the work-list    *)
(* engine of EventSystem::init / process_event / process_hw_event /        *)
(* process_sw_event.  One drain-loop iteration is one step of the model.   *)
(***************************************************************************)
EXTENDS Integers, Sequences, FiniteSets, TLC

\* ------------------------------------------------------------------ bounds
\* Longest level list of a Levels cell in the netlists explored.
MaxLevels == 3
\* Stimulus calls (process_hw_event / process_sw_event) explored after init.
MaxCalls == 3
\* Drain-loop iterations explored within one call (only a cyclic netlist
\* reaches it).
MaxSteps == 8

\* --------------------------------------------------------- program constants
\* The cell_id of the external sink (0xFFFF).
SINK == 65535

\* ------------------------------------------------------------------ inputs
\* Event values offered by the stimuli: zero, a "bang", a negative value.
Values == {-1, 0, 1}
\* Pin ids and software addresses offered by the stimuli.
StimIds == {0, 1, 2, 5}

\* ------------------------------------------------------------------- data
Conn(c, p) == [cell_id |-> c, port |-> p]

Event(v) == [value |-> v]

\* One sink call: a (connection, event) pair handed to the output closure.
Emit(c, e) == [c |-> c, event |-> e]

\* for c in &self.connections / &self.output { output(*c, event) }
FanOut(conns, e) == [i \in 1..Len(conns) |-> Emit(conns[i], e)]

\* `v as usize` / `v as u32` of an i32 v: v itself when v >= 0, and
\* 2^W + v (W >= 32, at least 2^31) when v < 0.  The wrapped value is kept
\* symbolically: wrapped marks the added 2^W.
AsUnsigned(v) == [wrapped |-> v < 0, n |-> v]

\* u < len for an unsigned u and a length len < 2^31.
UnsignedLt(u, len) == ~u.wrapped /\ u.n < len

\* (2^32 - 1) % len, len > 0: the u32 0 - 1 wrapped, reduced modulo len.
\* 2^32 = 65536 * 65536 is reduced factor by factor (TLC's integers are
\* 32-bit).
U32MaxMod(len) ==
    ((((65536 % len) * (65536 % len)) % len) + len - 1) % len

\* ------------------------------------------------------------- constructors
\* Levels::try_from: levels = params, select = 0, one output list.
NewLevels(params, out) ==
    [type |-> "Levels", levels |-> params, select |-> 0,
     output |-> out, outputs |-> <<>>, inputs |-> <<>>]

\* Mux::try_from: select = 0, inputs = vec![0; n], one output list.
NewMux(n, out) ==
    [type |-> "Mux", levels |-> <<>>, select |-> AsUnsigned(0),
     output |-> out, outputs |-> <<>>, inputs |-> [i \in 1..n |-> 0]]

\* Demux::try_from: select = 0, outputs = out_ports.
NewDemux(outs) ==
    [type |-> "Demux", levels |-> <<>>, select |-> AsUnsigned(0),
     output |-> <<>>, outputs |-> outs, inputs |-> <<>>]

\* Bool::try_from: one output list, no state.
NewBool(out) ==
    [type |-> "Bool", levels |-> <<>>, select |-> 0,
     output |-> out, outputs |-> <<>>, inputs |-> <<>>]

NewPinInput(pin, conns) == [pin |-> pin, connections |-> conns]

NewSoftwareInput(addr, conns) == [addr |-> addr, connections |-> conns]

\* ---------------------------------------------------------------- dispatch
\* The result of an init or dispatch call: the cell afterwards, the sink
\* calls it made in order, and whether it panicked.
Result(cell, emits) == [cell |-> cell, emits |-> emits, panic |-> FALSE]

Panic(cell) == [cell |-> cell, emits |-> <<>>, panic |-> TRUE]

\* Levels::init
LevelsInit(cell) ==
    IF Len(cell.levels) = 0
    THEN Result(cell, <<>>)
    ELSE Result(cell, FanOut(cell.output, Event(cell.levels[1])))

\* The fire at the end of Levels::dispatch: levels[select] to every output.
LevelsFire(cell, sel) ==
    LET c2 == [cell EXCEPT !.select = sel]
    IN  Result(c2, FanOut(cell.output, Event(cell.levels[sel + 1])))

\* Mutant: the increment without the remainder (and without firing).
LevelsIncrementNoWrap(cell) ==
    IF Len(cell.levels) = 0
    THEN Panic(cell)
    ELSE Result([cell EXCEPT !.select = @ + 1], <<>>)

\* Mutant: the increment stops at the last level instead of wrapping to 0.
LevelsIncrementSaturating(cell) ==
    IF Len(cell.levels) = 0
    THEN Panic(cell)
    ELSE LevelsFire(cell, IF cell.select + 1 < Len(cell.levels)
                          THEN cell.select + 1 ELSE cell.select)

\* self.select = (self.select + 1) % self.levels.len() as u32
LevelsIncrement(cell) ==
    IF Len(cell.levels) = 0
    THEN Panic(cell)
    ELSE LevelsFire(cell, (cell.select + 1) % Len(cell.levels))

\* self.select = (self.select - 1) % self.levels.len() as u32, on a u32
\* select: with overflow checks 0 - 1 panics, without them it wraps to
\* 2^32 - 1; a remainder by zero panics in every build.
LevelsDecrement(cell, checks) ==
    IF cell.select = 0
    THEN IF checks \/ Len(cell.levels) = 0
         THEN Panic(cell)
         ELSE LevelsFire(cell, U32MaxMod(Len(cell.levels)))
    ELSE IF Len(cell.levels) = 0
         THEN Panic(cell)
         ELSE LevelsFire(cell, (cell.select - 1) % Len(cell.levels))

\* Mutant: the test for a zero value is missing.
LevelsDispatchAnyValue(cell, port, e, checks) ==
    IF port = 0 THEN LevelsIncrement(cell)
    ELSE IF port = 1 THEN LevelsDecrement(cell, checks)
    ELSE Result(cell, <<>>)

\* Levels::dispatch
LevelsDispatch(cell, port, e, checks) ==
    IF e.value = 0 THEN Result(cell, <<>>)
    ELSE IF port = 0 THEN LevelsIncrement(cell)
    ELSE IF port = 1 THEN LevelsDecrement(cell, checks)
    ELSE Result(cell, <<>>)

\* Mutant: the range check written with >=, so the select port is rejected.
MuxDispatchNoSelectPort(cell, port, e) ==
    IF port >= Len(cell.inputs) THEN Result(cell, <<>>)
    ELSE LET c2 == [cell EXCEPT !.inputs[port + 1] = e.value]
         IN  IF UnsignedLt(c2.select, Len(c2.inputs))
             THEN Result(c2, FanOut(c2.output, Event(c2.inputs[c2.select.n + 1])))
             ELSE Result(c2, <<>>)

\* Mux::dispatch
MuxDispatch(cell, port, e) ==
    IF port > Len(cell.inputs) THEN Result(cell, <<>>)
    ELSE LET c2 == IF port = Len(cell.inputs)
                   THEN [cell EXCEPT !.select = AsUnsigned(e.value)]
                   ELSE [cell EXCEPT !.inputs[port + 1] = e.value]
         IN  IF UnsignedLt(c2.select, Len(c2.inputs))
             THEN Result(c2, FanOut(c2.output, Event(c2.inputs[c2.select.n + 1])))
             ELSE Result(c2, <<>>)

\* Mutant: `else` for `else if port == 1`: every other port sets select.
DemuxDispatchAnyPortSelects(cell, port, e) ==
    IF port = 0
    THEN IF UnsignedLt(cell.select, Len(cell.outputs))
         THEN Result(cell, FanOut(cell.outputs[cell.select.n + 1], e))
         ELSE Result(cell, <<>>)
    ELSE Result([cell EXCEPT !.select = AsUnsigned(e.value)], <<>>)

\* Demux::dispatch
DemuxDispatch(cell, port, e) ==
    IF port = 0
    THEN IF UnsignedLt(cell.select, Len(cell.outputs))
         THEN Result(cell, FanOut(cell.outputs[cell.select.n + 1], e))
         ELSE Result(cell, <<>>)
    ELSE IF port = 1
    THEN Result([cell EXCEPT !.select = AsUnsigned(e.value)], <<>>)
    ELSE Result(cell, <<>>)

\* Bool::dispatch
BoolDispatch(cell, port, e) ==
    IF port = 0 THEN Result(cell, FanOut(cell.output, Event(1)))
    ELSE IF port = 1 THEN Result(cell, FanOut(cell.output, Event(0)))
    ELSE IF port = 2 THEN Result(cell, FanOut(cell.output, Event(e.value)))
    ELSE Result(cell, <<>>)

\* PinInput::dispatch / SoftwareInput::dispatch: the event to every connection.
InputDispatch(input, e) == FanOut(input.connections, e)

\* Primitive::init through the Box<dyn Primitive>: Levels overrides it, the
\* other cells keep the default, which emits nothing.
CellInit(cell) ==
    IF cell.type = "Levels" THEN LevelsInit(cell) ELSE Result(cell, <<>>)

\* Primitive::dispatch through the Box<dyn Primitive>.
CellDispatch(cell, port, e, checks) ==
    CASE cell.type = "Levels" -> LevelsDispatch(cell, port, e, checks)
      [] cell.type = "Mux"    -> MuxDispatch(cell, port, e)
      [] cell.type = "Demux"  -> DemuxDispatch(cell, port, e)
      [] cell.type = "Bool"   -> BoolDispatch(cell, port, e)

\* ---------------------------------------------------------------- netlists
\* Netlists that from_netlist accepts: every Levels, Mux and Bool cell has
\* one output list, a Mux one parameter, a Demux and a Bool none.
LevelList(k) == [i \in 1..k |-> 10 * i]

NewNetlist(pins, sws, cs) ==
    [input_ports |-> pins, software_ports |-> sws, cells |-> cs]

\* One Levels cell of k levels wired to two external ports; pins 0, 1, 2
\* drive its ports 0, 1, 2; the software addresses go straight to the sink.
NetLevels(k) ==
    NewNetlist(
      << NewPinInput(0, <<Conn(0, 0)>>),
         NewPinInput(1, <<Conn(0, 1)>>),
         NewPinInput(2, <<Conn(0, 2)>>) >>,
      << NewSoftwareInput(5, <<Conn(SINK, 7)>>),
         NewSoftwareInput(0, <<Conn(SINK, 0)>>) >>,
      << NewLevels(LevelList(k), <<Conn(SINK, 3), Conn(SINK, 4)>>) >>)

\* Bool -> Mux select, Mux -> Demux data, Demux -> sink or Levels -> sink.
NetChain ==
    NewNetlist(
      << NewPinInput(0, <<Conn(0, 0)>>),
         NewPinInput(1, <<Conn(0, 1)>>),
         NewPinInput(2, <<Conn(2, 1)>>) >>,
      << NewSoftwareInput(0, <<Conn(1, 0)>>),
         NewSoftwareInput(1, <<Conn(1, 1)>>),
         NewSoftwareInput(5, <<Conn(0, 2)>>) >>,
      << NewBool(<<Conn(1, 2)>>),
         NewMux(2, <<Conn(2, 0)>>),
         NewDemux(<< <<Conn(SINK, 1)>>, <<Conn(SINK, 2), Conn(3, 0)>> >>),
         NewLevels(LevelList(2), <<Conn(SINK, 3)>>) >>)

\* Connections to cell ids that index no cell (7, 300, and 1 = cells.len()),
\* between connections that do; pin 1 is declared twice.
NetDrop ==
    NewNetlist(
      << NewPinInput(0, <<Conn(SINK, 1), Conn(7, 0), Conn(0, 0), Conn(SINK, 2)>>),
         NewPinInput(1, <<Conn(1, 0), Conn(SINK, 6)>>),
         NewPinInput(1, <<Conn(SINK, 9)>>) >>,
      << NewSoftwareInput(2, <<Conn(0, 3)>>) >>,
      << NewBool(<<Conn(300, 0), Conn(SINK, 5)>>) >>)

\* A Bool cell that feeds its own pass-through port: a feedback loop.
NetCycle ==
    NewNetlist(
      << NewPinInput(0, <<Conn(0, 2)>>) >>,
      << >>,
      << NewBool(<<Conn(SINK, 1), Conn(0, 2)>>) >>)

\* Three Levels cells, one of them empty; cell 2's startup event pulses
\* cell 0, pin 0 pulses cell 2 twice in one call.
NetInit ==
    NewNetlist(
      << NewPinInput(0, <<Conn(2, 0), Conn(2, 0)>>),
         NewPinInput(1, <<Conn(1, 0)>>),
         NewPinInput(2, <<Conn(1, 5)>>) >>,
      << NewSoftwareInput(0, <<Conn(2, 1)>>),
         NewSoftwareInput(1, <<Conn(1, 1)>>) >>,
      << NewLevels(LevelList(1), <<Conn(SINK, 0)>>),
         NewLevels(LevelList(0), <<Conn(SINK, 1)>>),
         NewLevels(LevelList(2), <<Conn(0, 0), Conn(SINK, 2)>>) >>)

\* A Mux without data inputs, a Mux with one, and a Demux with one output
\* list; the inputs reach their data ports, their select ports and ports past
\* them.
NetMux ==
    NewNetlist(
      << NewPinInput(0, <<Conn(0, 0)>>),
         NewPinInput(1, <<Conn(0, 1)>>),
         NewPinInput(2, <<Conn(1, 2)>>),
         NewPinInput(5, <<Conn(2, 2)>>) >>,
      << NewSoftwareInput(0, <<Conn(1, 0)>>),
         NewSoftwareInput(1, <<Conn(1, 1)>>),
         NewSoftwareInput(2, <<Conn(2, 0)>>),
         NewSoftwareInput(5, <<Conn(2, 1)>>) >>,
      << NewMux(0, <<Conn(SINK, 1)>>),
         NewMux(1, <<Conn(SINK, 2), Conn(2, 0)>>),
         NewDemux(<< <<Conn(SINK, 3), Conn(SINK, 4)>> >>) >>)

\* A pin that fans out to the sink and to the decrement port of a Levels
\* cell: the decrement is dispatched while the sink's pair is still pending.
NetAbort ==
    NewNetlist(
      << NewPinInput(0, <<Conn(SINK, 1), Conn(0, 1)>>) >>,
      << NewSoftwareInput(0, <<Conn(0, 0)>>) >>,
      << NewLevels(LevelList(2), <<Conn(SINK, 0)>>) >>)

Netlists ==
    {NetLevels(k) : k \in 0..MaxLevels}
      \cup {NetChain, NetDrop, NetCycle, NetInit, NetMux, NetAbort}

\* ------------------------------------------------------------------- state
\* ---------------------------------------------------------------- decoder
\* The limits from_netlist imposes on the count fields.
MAX_SOFTWARE_PORTS == 256
MAX_INPUT_PORTS == 32
MAX_CELLS == 256
MAX_PARAMETERS == 256
MAX_OUTPUTS == 256
MAX_CONNECTIONS == 256

\* enum DecodingError
DecodingError == {"InsufficientBytes", "BadPrimitive", "CountTooLarge"}

\* Result<T, DecodingError> of a read, with the reader's cursor after it.
Ok(val, pos) == [err |-> "Ok", val |-> val, pos |-> pos]
Err(e, pos) == [err |-> e, val |-> <<>>, pos |-> pos]

\* BinaryReader::remaining
remaining(data, pos) == Len(data) - pos

\* Mutant: a short read yields 0 instead of InsufficientBytes.
read_u16_lenient(data, pos) ==
    IF remaining(data, pos) < 2
    THEN Ok(0, Len(data))
    ELSE Ok(data[pos + 1] + 256 * data[pos + 2], pos + 2)

\* BinaryReader::read_u16 (little endian)
read_u16(data, pos) ==
    IF remaining(data, pos) < 2
    THEN Err("InsufficientBytes", pos)
    ELSE Ok(data[pos + 1] + 256 * data[pos + 2], pos + 2)

\* BinaryReader::read_u32.  The value is kept as its two 16-bit halves
\* (TLC's integers are 32-bit).
read_u32(data, pos) ==
    IF remaining(data, pos) < 4
    THEN Err("InsufficientBytes", pos)
    ELSE Ok([lo |-> data[pos + 1] + 256 * data[pos + 2],
             hi |-> data[pos + 3] + 256 * data[pos + 4]], pos + 4)

\* BinaryReader::read_i32: two's complement, the top bit is the sign.
read_i32(data, pos) ==
    IF remaining(data, pos) < 4
    THEN Err("InsufficientBytes", pos)
    ELSE LET lo == data[pos + 1] + 256 * data[pos + 2]
             hi == data[pos + 3] + 256 * data[pos + 4]
         IN  Ok((IF hi >= 32768 THEN hi - 65536 ELSE hi) * 65536 + lo, pos + 4)

\* BinaryReader::skip
skip(data, pos, n) ==
    IF remaining(data, pos) < n
    THEN Err("InsufficientBytes", pos)
    ELSE Ok(<<>>, pos + n)

\* Mutant: only the low half of the u32 is compared.
U32GtLowHalf(x, max) == x.lo > max

\* x > max for a u32 x read by read_u32 and a limit below 2^16.
U32Gt(x, max) == x.hi > 0 \/ x.lo > max

\* `for _ in 0..n { body }` over the reader: st is the Result so far, whose
\* value is the vector the loop fills; an error ends the loop (the `?` of
\* the body).  The n iterations run in order, the first half before the
\* second, which keeps the evaluation shallow.
RECURSIVE Repeat(_, _, _, _)
Repeat(Body(_, _), data, st, n) ==
    IF st.err # "Ok" \/ n = 0 THEN st
    ELSE IF n = 1 THEN Body(data, st)
    ELSE LET half == Repeat(Body, data, st, n \div 2)
         IN  Repeat(Body, data, half, n - (n \div 2))

\* The `?` of the source: an error is returned at once, otherwise Rest goes
\* on with what was read.
Try(r, Rest(_)) == IF r.err # "Ok" THEN r ELSE Rest(r)

\* The body of read_connection_list's loop: a cell_id and a port.
read_connection(data, st) ==
    Try(read_u16(data, st.pos), LAMBDA cell_id :
    Try(read_u16(data, cell_id.pos), LAMBDA port :
    Ok(Append(st.val, Conn(cell_id.val, port.val)), port.pos)))

\* read_connection_list
read_connection_list(data, pos, n) ==
    Repeat(read_connection, data, Ok(<<>>, pos), n)

\* The body of read_input_list's loop: id, name size, name (skipped),
\* connection count and connections.  The connection count is not compared
\* with a limit.  The value collects the (id, connections) pairs handed to
\* the callback.
read_input(data, st) ==
    Try(read_u16(data, st.pos), LAMBDA input_id :
    Try(read_u16(data, input_id.pos), LAMBDA name_size :
    Try(skip(data, name_size.pos, name_size.val), LAMBDA skipped :
    Try(read_u16(data, skipped.pos), LAMBDA n_connections :
    Try(read_connection_list(data, n_connections.pos, n_connections.val),
        LAMBDA connections :
    Ok(Append(st.val, [id |-> input_id.val, connections |-> connections.val]),
       connections.pos))))))

\* read_input_list
read_input_list(data, pos, n) == Repeat(read_input, data, Ok(<<>>, pos), n)

\* struct PrimitiveDescriptor
PrimitiveDescriptor(typecode, out_ports, params) ==
    [typecode |-> typecode, out_ports |-> out_ports, params |-> params]

\* impl From<u16> for PrimitiveType
PrimitiveType(x) ==
    CASE x = 0 -> "Levels"
      [] x = 1 -> "Mux"
      [] x = 2 -> "Demux"
      [] x = 3 -> "Bool"
      [] OTHER -> "Invalid"

\* Result<Primitive, InferPrimitiveError>; "abort" is a panic of the
\* constructor.
Built(cell) == [err |-> "Ok", cell |-> cell]
InferPrimitiveError(e) == [err |-> e, cell |-> <<>>]

\* Mux::try_from (the typecode was matched by build_primitive).  A negative
\* params[0] cast to usize asks vec! for more than isize::MAX bytes, which
\* panics with a capacity overflow.
MuxTryFrom(value) ==
    IF Len(value.params) # 1 THEN InferPrimitiveError("WrongParamCount")
    ELSE IF Len(value.out_ports) # 1 THEN InferPrimitiveError("WrongPortCount")
    ELSE IF value.params[1] < 0 THEN InferPrimitiveError("abort")
    ELSE Built(NewMux(value.params[1], value.out_ports[1]))

\* Demux::try_from: only the parameter count is checked.
DemuxTryFrom(value) ==
    IF Len(value.params) # 0 THEN InferPrimitiveError("WrongParamCount")
    ELSE Built(NewDemux(value.out_ports))

\* Levels::try_from
LevelsTryFrom(value) ==
    IF Len(value.out_ports) # 1 THEN InferPrimitiveError("WrongPortCount")
    ELSE Built(NewLevels(value.params, value.out_ports[1]))

\* Mutant: the parameter count of a Bool is not checked.
BoolTryFromAnyParams(value) ==
    IF Len(value.out_ports) # 1 THEN InferPrimitiveError("WrongPortCount")
    ELSE Built(NewBool(value.out_ports[1]))

\* Bool::try_from
BoolTryFrom(value) ==
    IF Len(value.out_ports) # 1 THEN InferPrimitiveError("WrongPortCount")
    ELSE IF Len(value.params) # 0 THEN InferPrimitiveError("WrongParamCount")
    ELSE Built(NewBool(value.out_ports[1]))

\* build_primitive
build_primitive(d) ==
    CASE PrimitiveType(d.typecode) = "Mux" -> MuxTryFrom(d)
      [] PrimitiveType(d.typecode) = "Demux" -> DemuxTryFrom(d)
      [] PrimitiveType(d.typecode) = "Levels" -> LevelsTryFrom(d)
      [] PrimitiveType(d.typecode) = "Bool" -> BoolTryFrom(d)
      [] OTHER -> InferPrimitiveError("BadType")

\* params.push(rdr.read_i32()?)
read_param(data, st) ==
    Try(read_i32(data, st.pos), LAMBDA p : Ok(Append(st.val, p.val), p.pos))

\* The body of the output-port loop: a connection count, compared with
\* MAX_CONNECTIONS, and that many connections.
read_output(data, st) ==
    Try(read_u16(data, st.pos), LAMBDA n_connections :
    IF n_connections.val > MAX_CONNECTIONS
    THEN Err("CountTooLarge", n_connections.pos)
    ELSE
    Try(read_connection_list(data, n_connections.pos, n_connections.val),
        LAMBDA connections :
    Ok(Append(st.val, connections.val), connections.pos)))

\* cells.push(build_primitive(cell_descriptor).map_err(..)?): every error of
\* build_primitive becomes BadPrimitive.
push_primitive(cs, built, pos) ==
    IF built.err = "abort" THEN Err("abort", pos)
    ELSE IF built.err # "Ok" THEN Err("BadPrimitive", pos)
    ELSE Ok(Append(cs, built.cell), pos)

\* The body of the cell loop: typecode, parameters, output ports, then
\* build_primitive.
read_cell(data, st) ==
    Try(read_u16(data, st.pos), LAMBDA cell_type :
    Try(read_u16(data, cell_type.pos), LAMBDA n_params :
    IF n_params.val > MAX_PARAMETERS
    THEN Err("CountTooLarge", n_params.pos)
    ELSE
    Try(Repeat(read_param, data, Ok(<<>>, n_params.pos), n_params.val),
        LAMBDA params :
    Try(read_u16(data, params.pos), LAMBDA n_outputs :
    IF n_outputs.val > MAX_OUTPUTS
    THEN Err("CountTooLarge", n_outputs.pos)
    ELSE
    Try(Repeat(read_output, data, Ok(<<>>, n_outputs.pos), n_outputs.val),
        LAMBDA outputs :
    push_primitive(st.val,
                   build_primitive(
                     PrimitiveDescriptor(cell_type.val, outputs.val, params.val)),
                   outputs.pos))))))

\* EventSystem::from_netlist: on Ok the value is the EventSystem.
from_netlist(data) ==
    Try(read_u16(data, 0), LAMBDA n_pin_input :
    IF n_pin_input.val > MAX_INPUT_PORTS
    THEN Err("CountTooLarge", n_pin_input.pos)
    ELSE
    Try(read_input_list(data, n_pin_input.pos, n_pin_input.val),
        LAMBDA pin_inputs :
    Try(read_u16(data, pin_inputs.pos), LAMBDA n_sw_input :
    IF n_sw_input.val > MAX_SOFTWARE_PORTS
    THEN Err("CountTooLarge", n_sw_input.pos)
    ELSE
    Try(read_input_list(data, n_sw_input.pos, n_sw_input.val),
        LAMBDA sw_inputs :
    Try(read_u32(data, sw_inputs.pos), LAMBDA n_cells :
    IF U32Gt(n_cells.val, MAX_CELLS)
    THEN Err("CountTooLarge", n_cells.pos)
    ELSE
    Try(Repeat(read_cell, data, Ok(<<>>, n_cells.pos), n_cells.val.lo),
        LAMBDA cs :
    Ok(NewNetlist(
         [i \in 1..Len(pin_inputs.val) |->
            NewPinInput(pin_inputs.val[i].id, pin_inputs.val[i].connections)],
         [i \in 1..Len(sw_inputs.val) |->
            NewSoftwareInput(sw_inputs.val[i].id,
                             sw_inputs.val[i].connections)],
         cs.val), cs.pos)))))))

\* -------------------------------------------------------- netlist bytes
\* How far above its limit a count field is taken.
MaxExcess == 1
\* Longest input name.
MaxName == 2

\* The netlist format, written: little-endian u16 and i32 (two's complement).
U16(x) == << x % 256, x \div 256 >>
I32(v) == U16(v % 65536) \o U16((v \div 65536) % 65536)

RECURSIVE Concat(_)
Concat(ss) ==
    IF Len(ss) = 0 THEN <<>>
    ELSE IF Len(ss) = 1 THEN ss[1]
    ELSE LET h == Len(ss) \div 2
         IN  Concat(SubSeq(ss, 1, h)) \o Concat(SubSeq(ss, h + 1, Len(ss)))

EncConns(cs) ==
    Concat([i \in 1..Len(cs) |-> U16(cs[i].cell_id) \o U16(cs[i].port)])

\* An input record: id, name size, name, connection count, connections.
EncInput(id, name, conns) ==
    U16(id) \o U16(Len(name)) \o name \o U16(Len(conns)) \o EncConns(conns)

\* A cell record: typecode, parameters, output ports.
EncCell(typecode, params, out_ports) ==
    U16(typecode)
      \o U16(Len(params)) \o Concat([i \in 1..Len(params) |-> I32(params[i])])
      \o U16(Len(out_ports))
      \o Concat([i \in 1..Len(out_ports) |->
                   U16(Len(out_ports[i])) \o EncConns(out_ports[i])])

\* A netlist of encoded records; the cell count is a u32.
EncNetlist(pins, sws, cs) ==
    U16(Len(pins)) \o Concat(pins)
      \o U16(Len(sws)) \o Concat(sws)
      \o U16(Len(cs)) \o U16(0) \o Concat(cs)

\* The record from which a cell of the model is built.
EncCellOf(cell) ==
    CASE cell.type = "Levels" -> EncCell(0, cell.levels, << cell.output >>)
      [] cell.type = "Mux" -> EncCell(1, << Len(cell.inputs) >>, << cell.output >>)
      [] cell.type = "Demux" -> EncCell(2, <<>>, cell.outputs)
      [] cell.type = "Bool" -> EncCell(3, <<>>, << cell.output >>)

\* The netlist of a system of the model; every input is named by `name`.
EncSystem(nl, name) ==
    EncNetlist(
      [i \in 1..Len(nl.input_ports) |->
         EncInput(nl.input_ports[i].pin, name, nl.input_ports[i].connections)],
      [i \in 1..Len(nl.software_ports) |->
         EncInput(nl.software_ports[i].addr, name,
                  nl.software_ports[i].connections)],
      [i \in 1..Len(nl.cells) |-> EncCellOf(nl.cells[i])])

Names == {[i \in 1..k |-> 64 + i] : k \in 0..MaxName}

\* The netlists of the engine's systems, with and without input names.
SystemBytes == {EncSystem(nl, name) : nl \in Netlists, name \in Names}

\* One-cell netlists over every typecode, parameter list and output-port
\* list below, alone or after a well-formed Bool cell.
Typecodes == {0, 1, 2, 3, 4, 4660, 65535}
ParamLists == {<<>>, <<2>>, <<-1>>, <<1, 2>>}
OutPortLists ==
    {<<>>, << <<Conn(SINK, 1)>> >>, << <<Conn(SINK, 1), Conn(0, 0)>>, <<>> >>}
GoodCell == EncCell(3, <<>>, << <<Conn(SINK, 0)>> >>)
CellNetlist(before, typecode, params, out_ports) ==
    EncNetlist(<< EncInput(0, <<>>, <<Conn(0, 0)>>) >>, <<>>,
               before \o << EncCell(typecode, params, out_ports) >>)
CellBytes ==
    {CellNetlist(before, t, p, o) :
        before \in {<<>>, <<GoodCell>>},
        t \in Typecodes, p \in ParamLists, o \in OutPortLists}

\* Netlists in which one count field is k: k pin inputs, k software inputs,
\* k cells, a Levels cell of k parameters, a Demux of k output ports, a Bool
\* cell whose output port has k connections, and a pin or a software input
\* of k connections.  Everything counted is present.
ConnsTo(k) == [i \in 1..k |-> Conn(SINK, i)]
PinCountBytes(k) ==
    EncNetlist([i \in 1..k |-> EncInput(i, <<>>, <<>>)], <<>>, <<>>)
SwCountBytes(k) ==
    EncNetlist(<<>>, [i \in 1..k |-> EncInput(i, <<>>, <<>>)], <<>>)
CellCountBytes(k) ==
    EncNetlist(<<>>, <<>>, [i \in 1..k |-> EncCell(3, <<>>, << <<>> >>)])
ParamCountBytes(k) ==
    EncNetlist(<<>>, <<>>, << EncCell(0, [i \in 1..k |-> i], << <<>> >>) >>)
OutputCountBytes(k) ==
    EncNetlist(<<>>, <<>>, << EncCell(2, <<>>, [i \in 1..k |-> <<>>]) >>)
ConnCountBytes(k) ==
    EncNetlist(<<>>, <<>>, << EncCell(3, <<>>, << ConnsTo(k) >>) >>)
PinConnCountBytes(k) ==
    EncNetlist(<< EncInput(0, <<>>, ConnsTo(k)) >>, <<>>, <<>>)
SwConnCountBytes(k) ==
    EncNetlist(<<>>, << EncInput(0, <<>>, ConnsTo(k)) >>, <<>>)

\* The count fields at their limits.
AtLimitBytes ==
    { PinCountBytes(MAX_INPUT_PORTS), SwCountBytes(MAX_SOFTWARE_PORTS),
      CellCountBytes(MAX_CELLS), ParamCountBytes(MAX_PARAMETERS),
      OutputCountBytes(MAX_OUTPUTS), ConnCountBytes(MAX_CONNECTIONS),
      PinConnCountBytes(MAX_CONNECTIONS), SwConnCountBytes(MAX_CONNECTIONS) }

\* A count field above its limit, for the six fields from_netlist counts
\* against a limit; and the same with the largest count and nothing after it.
Excess == 1..MaxExcess
OverLimitBytes ==
    {PinCountBytes(MAX_INPUT_PORTS + x) : x \in Excess}
      \cup {SwCountBytes(MAX_SOFTWARE_PORTS + x) : x \in Excess}
      \cup {CellCountBytes(MAX_CELLS + x) : x \in Excess}
      \cup {ParamCountBytes(MAX_PARAMETERS + x) : x \in Excess}
      \cup {OutputCountBytes(MAX_OUTPUTS + x) : x \in Excess}
      \cup {ConnCountBytes(MAX_CONNECTIONS + x) : x \in Excess}
      \cup { U16(65535),
             U16(0) \o U16(65535),
             U16(0) \o U16(0) \o <<0, 0, 1, 0>>,
             U16(0) \o U16(0) \o <<1, 0, 0, 128>>,
             U16(0) \o U16(0) \o <<255, 255, 255, 255>>,
             U16(0) \o U16(0) \o <<1, 0, 0, 0>> \o U16(0) \o U16(65535),
             U16(0) \o U16(0) \o <<1, 0, 0, 0>> \o U16(2) \o U16(0)
                \o U16(65535),
             U16(0) \o U16(0) \o <<1, 0, 0, 0>> \o U16(3) \o U16(0)
                \o U16(1) \o U16(65535) }

\* The connection count of an input record above MAX_CONNECTIONS.
InputOverLimitBytes ==
    {PinConnCountBytes(MAX_CONNECTIONS + x) : x \in Excess}
      \cup {SwConnCountBytes(MAX_CONNECTIONS + x) : x \in Excess}

\* Every proper prefix of a netlist.
Truncations(b) == {SubSeq(b, 1, j) : j \in 0..(Len(b) - 1)}

\* The byte sequences handed to from_netlist: the netlists above, each also
\* with a byte left over, and every truncation of the short ones.
WholeBytes ==
    SystemBytes \cup CellBytes \cup AtLimitBytes \cup OverLimitBytes
      \cup InputOverLimitBytes
ShortBytes == {EncSystem(nl, <<>>) : nl \in Netlists} \cup CellBytes
NetlistBytes ==
    WholeBytes
      \cup {b \o <<7>> : b \in SystemBytes}
      \cup UNION {Truncations(b) : b \in ShortBytes}

VARIABLES
    input_ports,       \* EventSystem.input_ports
    software_ports,    \* EventSystem.software_ports
    cells,             \* EventSystem.cells; cell_id c is cells[c + 1]
    overflow_checks,   \* the build: TRUE panics on integer overflow, FALSE wraps
    pc,                \* "from_netlist" and "rejected" (decoding), "constructed",
                       \* "drain" (inside a call), "idle", "panicked"
    pending_messages,  \* the work list of the running call, last element on top
    delivered,         \* the sink's calls during the current or last call
    stimulus,          \* the current or last call
    handled,           \* the pairs the drain loop of this call has removed
    nPushed,           \* pairs pushed in this call; a pair's stamp is its rank
    nSinkPushed,       \* pairs pushed in this call whose cell_id is the sink's
    ncalls,            \* stimulus calls made since init
    selTrace,          \* per Levels cell: select (and the values fired) at
                       \* construction or after the last port-1 pulse, then
                       \* after each port-0 pulse since
    data,              \* the bytes handed to from_netlist
    result,            \* "none" before from_netlist returns, then "Ok", a
                       \* DecodingError, or "abort"
    rdr_pos            \* the reader's cursor when from_netlist returned

vars ==
    << input_ports, software_ports, cells, overflow_checks, pc,
       pending_messages, delivered, stimulus, handled, nPushed, nSinkPushed,
       ncalls, selTrace, data, result, rdr_pos >>

\* The netlist and the build never change after construction.
system ==
    << input_ports, software_ports, overflow_checks, data, result, rdr_pos >>

\* ----------------------------------------------------------------- engine
\* pending_messages.push((connection, event)) for each sink call of one init or
\* dispatch, in order.  stamp numbers the pushes of the call, src is the stamp
\* of the pair whose dispatch pushed (0: the input port, -i: the init of cell
\* i - 1), call the number of the call.
Push(q, emits, n, src, call) ==
    q \o [i \in 1..Len(emits) |->
            [c |-> emits[i].c, event |-> emits[i].event,
             stamp |-> n + i, src |-> src, call |-> call]]

\* How many of the emitted pairs go to the sink.
SinkCount(emits) ==
    Cardinality({i \in 1..Len(emits) : emits[i].c.cell_id = SINK})

\* Mutant: the work list drained as a queue (Vec::remove(0)).
PopIndexFifo(q) == 1

\* Vec::pop: the index of the element removed, the last one.
PopIndex(q) == Len(q)

\* The work list without the element at index i.
Remove(q, i) == SubSeq(q, 1, i - 1) \o SubSeq(q, i + 1, Len(q))

\* Mutant: `if let` for `while let`: the loop body runs at most once.
LoopDoneIfLet(q, steps) == q = <<>> \/ steps >= 1

\* while let Some(msg) = pending_messages.pop(): the loop ends when pop
\* returns None.
LoopDone(q, steps) == q = <<>>

\* Mutant: every cell_id above the cell limit taken for the sink.
IsSinkAbove255(c) == c.cell_id > 255

\* c.cell_id == 0xFFFF
IsSink(c) == c.cell_id = SINK

\* Mutant: the index wrapped into range instead of checked.
GetCellWrapped(cs, id) == IF Len(cs) = 0 THEN 0 ELSE (id % Len(cs)) + 1

\* self.cells.get_mut(c.cell_id as usize): the index of the cell, 0 for None.
GetCell(cs, id) == IF id < Len(cs) THEN id + 1 ELSE 0

\* self.input_ports.iter().position(|p| p.pin == pin): the first match, 0 for
\* None.
PinPosition(ports, pin) ==
    LET hits == {i \in 1..Len(ports) : ports[i].pin = pin}
    IN  IF hits = {} THEN 0 ELSE CHOOSE i \in hits : \A j \in hits : i <= j

\* self.software_ports.iter().position(|p| p.addr == addr)
AddrPosition(ports, addr) ==
    LET hits == {i \in 1..Len(ports) : ports[i].addr = addr}
    IN  IF hits = {} THEN 0 ELSE CHOOSE i \in hits : \A j \in hits : i <= j

\* for c in &mut self.cells { c.init(push) }: the work list after the inits of
\* cells i.. in declaration order.
RECURSIVE InitSeeds(_, _, _)
InitSeeds(cs, i, q) ==
    IF i > Len(cs) THEN q
    ELSE InitSeeds(cs, i + 1, Push(q, CellInit(cs[i]).emits, Len(q), -i, 0))

\* The greatest stamp pending in q (0 when q is empty).
TopStamp(q) ==
    IF q = <<>> THEN 0
    ELSE CHOOSE s \in {q[i].stamp : i \in 1..Len(q)} :
            \A j \in 1..Len(q) : q[j].stamp <= s

\* The record of one removed pair: how is "sink", "dispatch", "drop" or
\* "panic"; top is the greatest stamp that was pending when it was removed.
Handled(msg, how, top, cellsChanged) ==
    [stamp |-> msg.stamp, src |-> msg.src, c |-> msg.c, event |-> msg.event,
     how |-> how, top |-> top, call |-> msg.call, changed |-> cellsChanged]

\* The values of a sequence of sink calls, in order.
Fired(emits) == [i \in 1..Len(emits) |-> emits[i].event.value]

\* selTrace of a cell after a dispatch with result r: a port-0 pulse on a
\* Levels cell adds its select and what it fired, a port-1 pulse starts anew.
NextTrace(trace, old, r, port, e) ==
    IF old.type # "Levels" \/ e.value = 0 \/ port > 1 THEN trace
    ELSE IF port = 0
    THEN Append(trace, [select |-> r.cell.select, fired |-> Fired(r.emits)])
    ELSE << [select |-> r.cell.select, fired |-> Fired(r.emits)] >>

Init ==
    /\ \E nl \in Netlists :
        /\ input_ports = nl.input_ports
        /\ software_ports = nl.software_ports
        /\ cells = nl.cells
    /\ overflow_checks \in BOOLEAN
    /\ data = <<>>
    /\ result = "Ok"
    /\ rdr_pos = 0
    /\ pc = "constructed"
    /\ pending_messages = <<>>
    /\ delivered = <<>>
    /\ stimulus = [kind |-> "none", id |-> 0, value |-> 0, matched |-> FALSE]
    /\ handled = <<>>
    /\ nPushed = 0
    /\ nSinkPushed = 0
    /\ ncalls = 0
    /\ selTrace = [i \in 1..Len(cells) |->
                     IF cells[i].type = "Levels"
                     THEN << [select |-> cells[i].select, fired |-> << >>] >>
                     ELSE << >>]

\* EventSystem::init up to its drain loop: every cell's init, in order.
CallInit ==
    /\ pc = "constructed"
    /\ pc' = "drain"
    /\ cells' = [i \in 1..Len(cells) |-> CellInit(cells[i]).cell]
    /\ pending_messages' = InitSeeds(cells, 1, <<>>)
    /\ nPushed' = Len(pending_messages')
    /\ nSinkPushed' =
         Cardinality({i \in 1..Len(pending_messages') : IsSink(pending_messages'[i].c)})
    /\ delivered' = <<>>
    /\ handled' = <<>>
    /\ stimulus' = [kind |-> "init", id |-> 0, value |-> 0, matched |-> TRUE]
    /\ UNCHANGED << system, ncalls, selTrace >>

\* process_event up to its drain loop: a fresh work list, then the input
\* port's dispatch of Event{value} on port 0.
ProcessEvent(kind, id, target, value) ==
    LET emits == InputDispatch(target, Event(value))
    IN  /\ pc' = "drain"
        /\ pending_messages' = Push(<<>>, emits, 0, 0, ncalls + 1)
        /\ nPushed' = Len(emits)
        /\ nSinkPushed' = SinkCount(emits)
        /\ delivered' = <<>>
        /\ handled' = <<>>
        /\ stimulus' = [kind |-> kind, id |-> id, value |-> value, matched |-> TRUE]
        /\ ncalls' = ncalls + 1
        /\ UNCHANGED << system, cells, selTrace >>

\* A stimulus call whose id matches no input: nothing happens.
NoMatch(kind, id, value) ==
    /\ pc' = "idle"
    /\ pending_messages' = <<>>
    /\ nPushed' = 0
    /\ nSinkPushed' = 0
    /\ delivered' = <<>>
    /\ handled' = <<>>
    /\ stimulus' = [kind |-> kind, id |-> id, value |-> value, matched |-> FALSE]
    /\ ncalls' = ncalls + 1
    /\ UNCHANGED << system, cells, selTrace >>

\* Mutant: one id space for pins and software addresses: a pin that matches no
\* pin input is looked up among the software inputs.
ProcessHwEventSharedIds(pin, value) ==
    /\ pc = "idle"
    /\ ncalls < MaxCalls
    /\ LET idx == PinPosition(input_ports, pin)
           alt == AddrPosition(software_ports, pin)
       IN  IF idx # 0
           THEN ProcessEvent("hw", pin, input_ports[idx], value)
           ELSE IF alt # 0
           THEN ProcessEvent("hw", pin, software_ports[alt], value)
           ELSE NoMatch("hw", pin, value)

\* EventSystem::process_hw_event
ProcessHwEvent(pin, value) ==
    /\ pc = "idle"
    /\ ncalls < MaxCalls
    /\ LET idx == PinPosition(input_ports, pin)
       IN  IF idx # 0
           THEN ProcessEvent("hw", pin, input_ports[idx], value)
           ELSE NoMatch("hw", pin, value)

\* EventSystem::process_sw_event
ProcessSwEvent(addr, value) ==
    /\ pc = "idle"
    /\ ncalls < MaxCalls
    /\ LET idx == AddrPosition(software_ports, addr)
       IN  IF idx # 0
           THEN ProcessEvent("sw", addr, software_ports[idx], value)
           ELSE NoMatch("sw", addr, value)

\* One iteration of the drain loop of init or process_event: pop a pair, then
\* the sink, a cell's dispatch, or nothing.
DrainStep ==
    /\ pc = "drain"
    /\ ~LoopDone(pending_messages, Len(handled))
    /\ pending_messages # <<>>
    /\ Len(handled) < MaxSteps
    /\ LET i    == PopIndex(pending_messages)
           msg  == pending_messages[i]
           rest == Remove(pending_messages, i)
           top  == TopStamp(pending_messages)
           k    == GetCell(cells, msg.c.cell_id)
       IN  IF IsSink(msg.c)
           THEN /\ delivered' = Append(delivered,
                                  [port |-> msg.c.port, event |-> msg.event,
                                   stamp |-> msg.stamp, src |-> msg.src])
                /\ pending_messages' = rest
                /\ handled' = Append(handled, Handled(msg, "sink", top, FALSE))
                /\ UNCHANGED << cells, pc, nPushed, nSinkPushed, selTrace >>
           ELSE IF k # 0
           THEN LET r == CellDispatch(cells[k], msg.c.port, msg.event, overflow_checks)
                IN  IF r.panic
                    THEN /\ pc' = "panicked"
                         /\ pending_messages' = rest
                         /\ handled' = Append(handled, Handled(msg, "panic", top, FALSE))
                         /\ UNCHANGED << cells, delivered, nPushed, nSinkPushed, selTrace >>
                    ELSE /\ cells' = [cells EXCEPT ![k] = r.cell]
                         /\ pending_messages' =
                              Push(rest, r.emits, nPushed, msg.stamp, msg.call)
                         /\ nPushed' = nPushed + Len(r.emits)
                         /\ nSinkPushed' = nSinkPushed + SinkCount(r.emits)
                         /\ handled' = Append(handled,
                                         Handled(msg, "dispatch", top, r.cell # cells[k]))
                         /\ selTrace' = [selTrace EXCEPT ![k] =
                                           NextTrace(@, cells[k], r, msg.c.port, msg.event)]
                         /\ UNCHANGED << pc, delivered >>
           ELSE /\ pending_messages' = rest
                /\ handled' = Append(handled, Handled(msg, "drop", top, FALSE))
                /\ UNCHANGED << cells, pc, delivered, nPushed, nSinkPushed, selTrace >>
    /\ UNCHANGED << system, stimulus, ncalls >>

\* The drain loop ends and init / process_event returns to the caller.
Return ==
    /\ pc = "drain"
    /\ LoopDone(pending_messages, Len(handled))
    /\ pc' = "idle"
    /\ UNCHANGED << system, cells, pending_messages, delivered, stimulus,
                    handled, nPushed, nSinkPushed, ncalls, selTrace >>

Next ==
    \/ CallInit
    \/ \E pin \in StimIds, value \in Values : ProcessHwEvent(pin, value)
    \/ \E addr \in StimIds, value \in Values : ProcessSwEvent(addr, value)
    \/ DrainStep
    \/ Return

Spec == Init /\ [][Next]_vars

\* ------------------------------------------------------ decoding a netlist
\* Before the call of from_netlist: any of the byte sequences, no system yet.
DecodeInit ==
    /\ data \in NetlistBytes
    /\ result = "none"
    /\ rdr_pos = 0
    /\ input_ports = <<>>
    /\ software_ports = <<>>
    /\ cells = <<>>
    /\ overflow_checks \in BOOLEAN
    /\ pc = "from_netlist"
    /\ pending_messages = <<>>
    /\ delivered = <<>>
    /\ stimulus = [kind |-> "none", id |-> 0, value |-> 0, matched |-> FALSE]
    /\ handled = <<>>
    /\ nPushed = 0
    /\ nSinkPushed = 0
    /\ ncalls = 0
    /\ selTrace = <<>>

\* EventSystem::from_netlist(data): the system exists only on Ok.
FromNetlist ==
    /\ pc = "from_netlist"
    /\ LET r == from_netlist(data)
       IN  /\ result' = r.err
           /\ rdr_pos' = r.pos
           /\ IF r.err = "Ok"
              THEN /\ input_ports' = r.val.input_ports
                   /\ software_ports' = r.val.software_ports
                   /\ cells' = r.val.cells
                   /\ selTrace' =
                        [i \in 1..Len(r.val.cells) |->
                           IF r.val.cells[i].type = "Levels"
                           THEN << [select |-> r.val.cells[i].select,
                                    fired |-> << >>] >>
                           ELSE << >>]
                   /\ pc' = "constructed"
              ELSE /\ UNCHANGED << input_ports, software_ports, cells, selTrace >>
                   /\ pc' = IF r.err = "abort" THEN "panicked" ELSE "rejected"
    /\ UNCHANGED << overflow_checks, data, pending_messages, delivered,
                    stimulus, handled, nPushed, nSinkPushed, ncalls >>

DecodeNext == FromNetlist

DecodeSpec == DecodeInit /\ [][DecodeNext]_vars

\* ------------------------------------------------------------ claim helpers
\* A step that removed a pair from the work list, and the record of that pair.
PopStep == Len(handled') = Len(handled) + 1

Removed == handled'[Len(handled')]

\* The connections of a cell's output lists.
CellConns(cell) ==
    {cell.output[i] : i \in 1..Len(cell.output)}
      \cup UNION {{cell.outputs[j][i] : i \in 1..Len(cell.outputs[j])} :
                    j \in 1..Len(cell.outputs)}

\* The cells (as indices of cs) a cell's output connections lead to.
Successors(cs, i) ==
    {c.cell_id + 1 : c \in {d \in CellConns(cs[i]) : d.cell_id < Len(cs)}}

\* The cells reached from the set S in at most n further connections.
RECURSIVE ReachWithin(_, _, _)
ReachWithin(cs, S, n) ==
    IF n = 0 THEN S
    ELSE ReachWithin(cs, S \cup UNION {Successors(cs, i) : i \in S}, n - 1)

\* The cell-to-cell connection graph has no cycle: no cell reaches itself.
AcyclicNetlist ==
    \A i \in 1..Len(cells) : i \notin ReachWithin(cells, Successors(cells, i), Len(cells))

\* Every Levels cell has at least one level.
LevelsNonEmpty ==
    \A i \in 1..Len(cells) : cells[i].type = "Levels" => Len(cells[i].levels) > 0

\* The (connection, event) pairs of the work list q that were pushed by src.
PushedBy(q, src) ==
    LET From(m) == m.src = src
        mine == SelectSeq(q, From)
    IN  [i \in 1..Len(mine) |-> Emit(mine[i].c, mine[i].event)]

\* A step that removed a pair addressed to a cell, and the index of that cell.
CellStep == PopStep /\ Removed.c.cell_id # SINK /\ Removed.c.cell_id < Len(cells)

Target == Removed.c.cell_id + 1

\* A step that removed a nonzero event for the given port of a Levels cell that
\* has levels.
LevelsPulse(port) ==
    /\ CellStep
    /\ cells[Target].type = "Levels"
    /\ Len(cells[Target].levels) > 0
    /\ Removed.c.port = port
    /\ Removed.event.value # 0

\* The step that runs the cells' inits.
InitStep == pc = "constructed" /\ pc' = "drain"

\* ------------------------------------------------------------------ claims
\* C1: within one call the work list is drained in LIFO order: every pair
\* removed carried the greatest push stamp then pending; and of two sink
\* events pushed by the same init or dispatch, the one pushed later is
\* delivered first.
C1_LifoOrder ==
    /\ \A i \in 1..Len(handled) : handled[i].stamp = handled[i].top
    /\ \A i, j \in 1..Len(delivered) :
          (i < j /\ delivered[i].src = delivered[j].src)
             => delivered[i].stamp > delivered[j].stamp

\* One dispatch emitted to two distinct external ports and both events have
\* reached the sink.
C1_Witness ==
    /\ pc = "idle"
    /\ \E i, j \in 1..Len(delivered) :
          /\ i < j
          /\ delivered[i].src = delivered[j].src
          /\ delivered[i].port # delivered[j].port

\* C2: no partial delivery: when a call has returned its work list is empty,
\* every pair it pushed has been removed and every pair pushed for the sink
\* has been delivered; and every pair pending or removed during a call was
\* pushed by that call.
C2_NoPartialDelivery ==
    /\ pc = "idle" =>
          /\ pending_messages = <<>>
          /\ Len(handled) = nPushed
          /\ Len(delivered) = nSinkPushed
    /\ \A i \in 1..Len(pending_messages) : pending_messages[i].call = ncalls
    /\ \A i \in 1..Len(handled) : handled[i].call = ncalls

\* A second or later stimulus has returned after a cascade through a cell that
\* delivered to the sink.
C2_Witness ==
    /\ pc = "idle"
    /\ ncalls >= 2
    /\ Len(delivered) >= 1
    /\ \E i \in 1..Len(handled) : handled[i].how = "dispatch"

\* C3 (as claimed): in a netlist without a cycle whose Levels cells have
\* levels, every call drains its work list: no call stops before the list is
\* empty, and none needs MaxSteps iterations.
C3_AcyclicCallsDrain ==
    (AcyclicNetlist /\ LevelsNonEmpty) =>
        (pc # "panicked" /\ Len(handled) < MaxSteps)

\* C4: the sink is called exactly for the removed pairs whose cell_id is
\* 0xFFFF: such a pair makes one sink call with its port and its event, changes
\* no cell and pushes nothing; a pair with any other cell_id makes no sink
\* call; and no other step calls the sink.
C4_SinkExactly ==
    [][ IF PopStep
        THEN IF Removed.c.cell_id = SINK
             THEN /\ Len(delivered') = Len(delivered) + 1
                  /\ SubSeq(delivered', 1, Len(delivered)) = delivered
                  /\ delivered'[Len(delivered')].port = Removed.c.port
                  /\ delivered'[Len(delivered')].event = Removed.event
                  /\ Removed.how = "sink"
                  /\ cells' = cells
                  /\ nPushed' = nPushed
             ELSE /\ delivered' = delivered
                  /\ Removed.how # "sink"
        ELSE delivered' = delivered \/ delivered' = <<>>
      ]_vars

\* One call has both delivered to the sink and dispatched to a cell.
C4_Witness ==
    /\ \E i \in 1..Len(handled) : handled[i].how = "sink" /\ handled[i].event.value # 0
    /\ \E i \in 1..Len(handled) : handled[i].how = "dispatch"
    /\ Len(delivered) >= 2

\* C5: a removed pair whose cell_id is neither 0xFFFF nor an index of cells[]
\* is dropped: no cell changes, nothing is pushed, the sink is not called, the
\* call goes on; and when the call returns every pair pushed has been removed.
C5_InvalidCellDropped ==
    [][ /\ (PopStep /\ Removed.c.cell_id # SINK /\ Removed.c.cell_id >= Len(cells)) =>
              /\ Removed.how = "drop"
              /\ cells' = cells
              /\ delivered' = delivered
              /\ nPushed' = nPushed
              /\ pc' = "drain"
              /\ Len(pending_messages') = Len(pending_messages) - 1
        /\ (pc' = "idle" => Len(handled') = nPushed')
      ]_vars

\* A call has returned in which a pair was dropped and pairs that were pending
\* below it were handled afterwards.
C5_Witness ==
    /\ pc = "idle"
    /\ \E i, j \in 1..Len(handled) :
          /\ i < j
          /\ handled[i].how = "drop"
          /\ handled[j].how \in {"sink", "dispatch"}
          /\ handled[j].stamp < handled[i].stamp

\* C6: a process_hw_event whose pin matches no pin input, and a
\* process_sw_event whose addr matches no software input, does nothing: no
\* cell changes, nothing is pushed, the sink is not called.  A matching call
\* pushes the fan-out of the first input of its own kind with that id, so a
\* software address never answers a pin id, nor a pin an address.
C6_UnknownInputNoOp ==
    [][ (pc = "idle" /\ ncalls' = ncalls + 1) =>
          LET st   == stimulus'
              pins == {i \in 1..Len(input_ports) : input_ports[i].pin = st.id}
              sws  == {i \in 1..Len(software_ports) : software_ports[i].addr = st.id}
              hits == IF st.kind = "hw" THEN pins ELSE sws
              conns(i) == IF st.kind = "hw" THEN input_ports[i].connections
                          ELSE software_ports[i].connections
          IN  /\ st.kind \in {"hw", "sw"}
              /\ cells' = cells
              /\ delivered' = <<>>
              /\ IF hits = {}
                 THEN pc' = "idle" /\ pending_messages' = <<>> /\ nPushed' = 0
                 ELSE \E i \in hits :
                        /\ \A j \in hits : i <= j
                        /\ PushedBy(pending_messages', 0) = FanOut(conns(i), Event(st.value))
                        /\ Len(pending_messages') = Len(conns(i))
      ]_vars

\* process_hw_event(k, v) was a no-op although a software input has addr k.
C6_Witness ==
    /\ pc = "idle"
    /\ stimulus.kind = "hw"
    /\ ~stimulus.matched
    /\ stimulus.value # 0
    /\ \E i \in 1..Len(software_ports) : software_ports[i].addr = stimulus.id

\* The part of C8 that is about the history of a Levels cell: after k port-0
\* pulses in a row select has advanced by k modulo |L| and the k-th pulse fired
\* L[select]; counted from select = 0 (as init leaves it) that is L[k mod |L|];
\* and two selects of the row are equal exactly when a multiple of |L| pulses
\* lies between them.
LevelsTraceCycles ==
    \A i \in 1..Len(cells) :
        (cells[i].type = "Levels" /\ Len(cells[i].levels) > 0) =>
            LET t == selTrace[i]
                L == cells[i].levels
            IN  /\ \A k \in 1..(Len(t) - 1) :
                      /\ t[k + 1].select = (t[1].select + k) % Len(L)
                      /\ t[k + 1].fired =
                           [j \in 1..Len(cells[i].output) |-> L[t[k + 1].select + 1]]
                      /\ t[1].select = 0 =>
                           t[k + 1].fired =
                             [j \in 1..Len(cells[i].output) |-> L[(k % Len(L)) + 1]]
                /\ \A a, b \in 1..Len(t) :
                      a < b => (t[a].select = t[b].select <=> (b - a) % Len(L) = 0)

\* C8: for a Levels cell with levels, init pushes L[0] for every output
\* connection and leaves select 0; every nonzero event on port 0 sets select to
\* (select + 1) mod |L| and pushes L[select] of the new select for every output
\* connection; so the k-th pulse in a row fires L[k mod |L|] and exactly |L|
\* pulses bring select back.
C8_LevelsIncrementCycle ==
    [][ /\ InitStep =>
              \A i \in 1..Len(cells) :
                  (cells[i].type = "Levels" /\ Len(cells[i].levels) > 0) =>
                      /\ cells'[i].select = 0
                      /\ PushedBy(pending_messages', -i) =
                           FanOut(cells[i].output, Event(cells[i].levels[1]))
        /\ LevelsPulse(0) =>
              LET L   == cells[Target].levels
                  sel == (cells[Target].select + 1) % Len(L)
              IN  /\ pc' = "drain"
                  /\ cells'[Target].select = sel
                  /\ PushedBy(pending_messages', Removed.stamp) =
                       FanOut(cells[Target].output, Event(L[sel + 1]))
        /\ LevelsTraceCycles'
      ]_vars

\* A Levels cell of at least two levels has been pulsed on port 0 more than
\* |L| times in a row since select was 0, so select wrapped and came back.
C8_Witness ==
    /\ pc = "idle"
    /\ \E i \in 1..Len(cells) :
          /\ cells[i].type = "Levels"
          /\ Len(cells[i].levels) >= 2
          /\ Len(selTrace[i]) > Len(cells[i].levels)
          /\ selTrace[i][1].select = 0

\* C9 (as claimed): a nonzero event on port 1 of a Levels cell with levels sets
\* select to (select + |L| - 1) mod |L| and pushes L[select] of the new select
\* for every output connection, without aborting the call.
C9_LevelsDecrementWraps ==
    [][ LevelsPulse(1) =>
          LET L   == cells[Target].levels
              sel == (cells[Target].select + Len(L) - 1) % Len(L)
          IN  /\ pc' = "drain"
              /\ cells'[Target].select = sel
              /\ PushedBy(pending_messages', Removed.stamp) =
                   FanOut(cells[Target].output, Event(L[sel + 1]))
      ]_vars

\* C10 (as claimed): a Levels cell without levels pushes nothing at init, and
\* any event on any port leaves it unchanged, pushes nothing and lets the call
\* go on.
C10_EmptyLevelsNoOp ==
    [][ /\ InitStep =>
              \A i \in 1..Len(cells) :
                  (cells[i].type = "Levels" /\ Len(cells[i].levels) = 0) =>
                      PushedBy(pending_messages', -i) = <<>>
        /\ (CellStep /\ cells[Target].type = "Levels" /\ Len(cells[Target].levels) = 0) =>
              /\ pc' = "drain"
              /\ cells' = cells
              /\ nPushed' = nPushed
      ]_vars

\* C11: a Mux of n data inputs stores an event of port p < n in inputs[p],
\* takes an event of port n as its select, and ignores a port past n.  After a
\* port up to n it pushes inputs[select] for every output connection exactly
\* when 0 <= select < n, and nothing otherwise; with n = 0 it never pushes.
C11_MuxDispatch ==
    [][ (CellStep /\ cells[Target].type = "Mux") =>
          LET old == cells[Target]
              new == cells'[Target]
              n   == Len(old.inputs)
              p   == Removed.c.port
              v   == Removed.event.value
              s   == new.select.n
          IN  /\ pc' = "drain"
              /\ Len(new.inputs) = n
              /\ p < n => /\ new.inputs = [old.inputs EXCEPT ![p + 1] = v]
                          /\ new.select = old.select
              /\ p = n => /\ s = v
                          /\ new.inputs = old.inputs
              /\ p > n => /\ cells' = cells
                          /\ nPushed' = nPushed
              /\ p <= n =>
                    IF 0 <= s /\ s < n
                    THEN PushedBy(pending_messages', Removed.stamp) =
                           FanOut(old.output, Event(new.inputs[s + 1]))
                    ELSE nPushed' = nPushed
              /\ n = 0 => nPushed' = nPushed
      ]_vars

\* A Mux holds a negative select, another (or the same) a stored nonzero input,
\* and a Mux without data inputs has been dispatched to.
C11_Witness ==
    /\ \E i \in 1..Len(cells) : cells[i].type = "Mux" /\ cells[i].select.n < 0
    /\ \E i \in 1..Len(cells) :
          /\ cells[i].type = "Mux"
          /\ \E j \in 1..Len(cells[i].inputs) : cells[i].inputs[j] # 0
    /\ \E i \in 1..Len(cells), j \in 1..Len(handled) :
          /\ cells[i].type = "Mux"
          /\ Len(cells[i].inputs) = 0
          /\ handled[j].how = "dispatch"
          /\ handled[j].c = Conn(i - 1, 0)
    /\ pc = "idle"

\* C12: a Demux pushes an event of port 0, unchanged, for the connections of
\* outputs[select] when 0 <= select < |outputs| and drops it otherwise; an
\* event of port 1 becomes its select and pushes nothing; any other port
\* changes and pushes nothing.  select is 0 until the first port-1 event.
C12_DemuxDispatch ==
    [][ /\ (CellStep /\ cells[Target].type = "Demux") =>
              LET old == cells[Target]
                  new == cells'[Target]
                  p   == Removed.c.port
                  s   == old.select.n
              IN  /\ pc' = "drain"
                  /\ new.outputs = old.outputs
                  /\ p = 0 =>
                        /\ cells' = cells
                        /\ IF 0 <= s /\ s < Len(old.outputs)
                           THEN PushedBy(pending_messages', Removed.stamp) =
                                  FanOut(old.outputs[s + 1], Removed.event)
                           ELSE nPushed' = nPushed
                  /\ p = 1 =>
                        /\ new.select.n = Removed.event.value
                        /\ nPushed' = nPushed
                  /\ p >= 2 =>
                        /\ cells' = cells
                        /\ nPushed' = nPushed
        /\ \A i \in 1..Len(cells) :
              (cells[i].type = "Demux" /\ cells'[i].select # cells[i].select) =>
                  (CellStep /\ Target = i /\ Removed.c.port = 1)
        /\ InitStep =>
              \A i \in 1..Len(cells) : cells[i].type = "Demux" => cells'[i].select.n = 0
      ]_vars

\* A Demux with a negative select has dropped a nonzero data event.
C12_Witness ==
    \E i \in 1..Len(cells), j \in 1..Len(handled) :
        /\ cells[i].type = "Demux"
        /\ cells[i].select.n < 0
        /\ handled[j].how = "dispatch"
        /\ handled[j].c = Conn(i - 1, 0)
        /\ handled[j].event.value # 0
        /\ j = Len(handled)
        /\ pc = "idle"

\* Decoding the netlist written from a system yields that system, consuming
\* every byte of it.
RoundTrip ==
    \A nl \in Netlists :
        (result # "none" /\ data \in {EncSystem(nl, name) : name \in Names}) =>
            /\ result = "Ok"
            /\ rdr_pos = Len(data)
            /\ NewNetlist(input_ports, software_ports, cells) = nl

\* C13: from_netlist returns CountTooLarge whenever the count of pin inputs,
\* software inputs, cells, a cell's parameters, a cell's output ports or an
\* output port's connections is above its limit; so a system it builds has
\* at most 32 pin inputs, 256 software inputs and 256 cells.
C13_CountTooLarge ==
    /\ (result # "none" /\ data \in OverLimitBytes) => result = "CountTooLarge"
    /\ (pc = "constructed" /\ result = "Ok") =>
          /\ Len(input_ports) <= MAX_INPUT_PORTS
          /\ Len(software_ports) <= MAX_SOFTWARE_PORTS
          /\ Len(cells) <= MAX_CELLS

\* 257 cell records, all present, were refused.
C13_Witness ==
    /\ data = CellCountBytes(MAX_CELLS + 1)
    /\ result = "CountTooLarge"

\* C14: an input record that declares more than 256 connections, all of
\* them present, makes from_netlist return CountTooLarge.
C14_InputConnectionLimit ==
    (result # "none" /\ data \in InputOverLimitBytes) => result = "CountTooLarge"

\* C15: when from_netlist accepts data, it returns InsufficientBytes for
\* every proper prefix of the bytes it consumed.
C15_TruncationInsufficient ==
    (pc = "constructed" /\ result = "Ok") =>
        \A j \in 0..(rdr_pos - 1) :
            from_netlist(SubSeq(data, 1, j)).err = "InsufficientBytes"

\* A netlist of four cells cut inside its cell records was refused for its
\* missing bytes.
C15_Witness ==
    /\ data \in Truncations(EncSystem(NetChain, <<>>))
    /\ Len(data) > Len(EncSystem(NewNetlist(NetChain.input_ports,
                                            NetChain.software_ports, <<>>), <<>>))
    /\ result = "InsufficientBytes"

\* The cell records the factories must refuse: an unknown typecode, a Mux
\* without exactly one parameter, a Mux, Levels or Bool without exactly one
\* output port, a Demux or Bool with parameters.
BadArity(typecode, params, out_ports) ==
    \/ typecode \notin {0, 1, 2, 3}
    \/ typecode = 1 /\ Len(params) # 1
    \/ typecode \in {0, 1, 3} /\ Len(out_ports) # 1
    \/ typecode \in {2, 3} /\ Len(params) # 0

BadCellBytes ==
    {CellNetlist(d[1], d[2], d[3], d[4]) :
        d \in {x \in {<<>>, <<GoodCell>>} \X Typecodes \X ParamLists
                        \X OutPortLists :
                 BadArity(x[2], x[3], x[4])}}

\* C16: a netlist whose cell record is fully present, within the limits and
\* of a wrong typecode or arity makes from_netlist return BadPrimitive.
C16_BadPrimitive ==
    (result # "none" /\ data \in BadCellBytes) => result = "BadPrimitive"

\* A Bool cell with one parameter, after a well-formed cell, was refused.
C16_Witness ==
    /\ data = CellNetlist(<<GoodCell>>, 3, <<2>>, << <<Conn(SINK, 1)>> >>)
    /\ result = "BadPrimitive"

\* C17: a Demux record without output ports makes from_netlist return
\* BadPrimitive.
C17_DemuxNeedsOutput ==
    (result # "none"
       /\ data \in {CellNetlist(before, 2, <<>>, <<>>) :
                       before \in {<<>>, <<GoodCell>>}})
      => result = "BadPrimitive"

\* C18: an event of value 0 on port 0 or 1 of a Levels cell, and an event of
\* any value on a port from 2 up, leaves the cell as it was and pushes
\* nothing.
C18_LevelsIgnored ==
    [][ (/\ CellStep
         /\ cells[Target].type = "Levels"
         /\ Removed.event.value = 0 \/ Removed.c.port >= 2) =>
            /\ pc' = "drain"
            /\ cells' = cells
            /\ nPushed' = nPushed
            /\ pending_messages' = Remove(pending_messages, Len(pending_messages))
      ]_vars

\* A Levels cell with levels, its select moved off 0, has taken a zero on its
\* decrement port and kept its select.
C18_Witness ==
    \E i \in 1..Len(cells), j \in 1..Len(handled) :
        /\ cells[i].type = "Levels"
        /\ cells[i].select > 0
        /\ handled[j].how = "dispatch"
        /\ handled[j].c = Conn(i - 1, 1)
        /\ handled[j].event.value = 0
        /\ pc = "idle"
        /\ ncalls >= 2

\* C19: a Levels cell with levels always has 0 <= select < |levels|.
C19_SelectInRange ==
    \A i \in 1..Len(cells) :
        (cells[i].type = "Levels" /\ Len(cells[i].levels) > 0) =>
            (0 <= cells[i].select /\ cells[i].select < Len(cells[i].levels))

\* In a build without overflow checks a decrement pulse has just moved the
\* select of a Levels cell of two or more levels.
C19_Witness ==
    /\ ~overflow_checks
    /\ handled # <<>>
    /\ LET last == handled[Len(handled)]
       IN  /\ last.how = "dispatch"
           /\ last.c.port = 1
           /\ last.event.value # 0
           /\ last.c.cell_id < Len(cells)
           /\ cells[last.c.cell_id + 1].type = "Levels"
           /\ Len(cells[last.c.cell_id + 1].levels) >= 2
           /\ last.changed

\* Within a call the pairs pushed are numbered 1..nPushed; each is either
\* pending or removed, never both and never twice; a removed pair went to the
\* sink, to one dispatch of its cell, or was dropped; a pair pushed by a
\* dispatch is removed only after that dispatch has ended.
ExactlyOnceSoFar ==
    LET pend == {pending_messages[i].stamp : i \in 1..Len(pending_messages)}
        done == {handled[j].stamp : j \in 1..Len(handled)}
    IN  /\ Cardinality(pend) = Len(pending_messages)
        /\ Cardinality(done) = Len(handled)
        /\ pend \cap done = {}
        /\ pend \cup done = 1..nPushed
        /\ \A j \in 1..Len(handled) :
              /\ handled[j].how \in {"sink", "dispatch", "drop", "panic"}
              /\ handled[j].how = "sink" <=> handled[j].c.cell_id = SINK
              /\ handled[j].how = "drop" <=>
                    (handled[j].c.cell_id # SINK /\ handled[j].c.cell_id >= Len(cells))
              /\ handled[j].src > 0 =>
                    \E k \in 1..(j - 1) :
                        /\ handled[k].stamp = handled[j].src
                        /\ handled[k].how = "dispatch"
        /\ Len(delivered) = Cardinality({j \in 1..Len(handled) : handled[j].how = "sink"})

\* C20 (as claimed): every pair pushed within a call is removed exactly once
\* and handled in exactly one way, by the sink, by one dispatch that starts
\* after the dispatch that pushed it has ended, or by being dropped; when the
\* call is over, returned or aborted, no pushed pair is left unhandled.
C20_ExactlyOnce ==
    /\ ExactlyOnceSoFar
    /\ pc \in {"idle", "panicked"} => pending_messages = <<>>

\* The netlists whose cell record is a Mux with the single parameter -1 and
\* exactly one output port, alone or after a well-formed cell.
NegativeMuxBytes ==
    {CellNetlist(before, 1, <<-1>>, << <<Conn(SINK, 1)>> >>) :
        before \in {<<>>, <<GoodCell>>}}

\* from_netlist ends without a result only on a Mux record with a negative
\* parameter.
TotalElsewhere ==
    /\ result \in {"none", "Ok", "abort"} \cup DecodingError
    /\ result = "abort" => data \in NegativeMuxBytes

\* C21 (as claimed): from_netlist returns an EventSystem or a DecodingError
\* for every byte sequence and never aborts; a Mux record with the parameter
\* -1 and one output port is refused or built.
C21_FromNetlistTotal ==
    result # "none" =>
        /\ result \in {"Ok"} \cup DecodingError
        /\ result = "Ok" <=> pc = "constructed"
        /\ data \in NegativeMuxBytes =>
              \/ result \in DecodingError
              \/ /\ result = "Ok"
                 /\ cells[Len(cells)].type = "Mux"

====
